---- MODULE Spec2Model ----
(***************************************************************************)
(* Rate resolution of the currency converter: core/cache.py (the session   *)
(* rate cache), api/fiat_client.py and api/crypto_client.py (the provider  *)
(* fallback chains) and core/converter.py (get_exchange_rate).             *)
(*                                                                         *)
(* One session, one resolution at a time.  A provider attempt is one step  *)
(* whose answer the environment chooses; everything the code does between  *)
(* two attempts (validation, arithmetic, the cache write, the except       *)
(* handler) belongs to the step that triggers it.                          *)
(*                                                                         *)
(* Rates are exact rationals [n, d] in lowest terms: the code's floats are *)
(* abstracted to the values they approximate (the specification allows a   *)
(* tolerance of 1e-9 on reciprocals).                                      *)
(***************************************************************************)
EXTENDS Integers, Sequences, FiniteSets, TLC

\* ------------------------------------------------------------------ bounds

\* Top-level calls in one behaviour.
MaxCalls == 2

\* Clock advances in one behaviour.
MaxTicks == 2

\* Conversions in one long session.
MaxConversions == 11

\* Calls of get_exchange_rate in progress at once on one cache.
MaxRacers == 2

\* ------------------------------------------------------- program constants

\* core/cache.py: CACHE_TTL = 1800
CACHE_TTL == 1800

\* The supported fiat codes (a sample of the registry: the pivot currency and
\* one other).
FIAT_CURRENCIES == {"USD", "EUR"}

\* The supported crypto codes (a sample of the registry's keys).
CRYPTO_MAPPING == {"BTC", "ETH"}

\* Code strings a caller may pass: supported codes, an unsupported one, and
\* lower-case spellings.
Codes == {"USD", "EUR", "BTC", "ETH", "XXX", "usd", "btc"}

\* Codes the select boxes of the UI offer (a sample: they offer the
\* registries' own spellings only).
SessionCodes == {"USD", "EUR", "BTC"}

\* str.upper() on the code strings above and their lower-case forms.
Upper(c) ==
  CASE c = "usd" -> "USD"
    [] c = "btc" -> "BTC"
    [] c = "eur" -> "EUR"
    [] c = "eth" -> "ETH"
    [] c = "xxx" -> "XXX"
    [] OTHER -> c

\* str.lower() on the code strings above, as get_crypto_rate applies it to
\* its fiat argument.
Lower(c) ==
  CASE c = "USD" -> "usd"
    [] c = "BTC" -> "btc"
    [] c = "EUR" -> "eur"
    [] c = "ETH" -> "eth"
    [] c = "XXX" -> "xxx"
    [] OTHER -> c

\* ---------------------------------------------------------------- numbers

RECURSIVE Gcd(_, _)
Gcd(a, b) == IF b = 0 THEN a ELSE Gcd(b, a % b)

\* The rational n/d (d > 0, n >= 0) in lowest terms.
Rat(n, d) == LET g == Gcd(n, d) IN [n |-> n \div g, d |-> d \div g]

Zero == Rat(0, 1)
One == Rat(1, 1)

IsZero(r) == r.n = 0

\* a * b
RMul(a, b) == Rat(a.n * b.n, a.d * b.d)

\* A cross rate computed as a product.
RDivMultiplies(a, b) == RMul(a, b)

\* a / b for b # 0 (the callers test b first: Python raises ZeroDivisionError)
RDiv(a, b) == Rat(a.n * b.d, a.d * b.n)

\* The crypto -> USD quote used where its reciprocal belongs.
RInvNotInverted(r) == r

\* 1 / r for r # 0
RInv(r) == RDiv(One, r)

\* No amount: the value of an absent converted_amount / original_amount.
NoAmount == [n |-> -1, d |-> 1]

\* Amounts a user converts (the amount field takes positive numbers).
Amounts == {[n |-> 3, d |-> 1]}

\* Prices a provider may quote (always positive).
ProviderRates == {Rat(1, 1), Rat(2, 1)}

\* One provider attempt's answer.  Down: requests.get or response.json()
\* raised (transport error, timeout, unparsable body); the try block appends
\* nothing to error_messages.  Rejected: one of the block's own checks failed
\* (non-200 status, error response, missing key, target absent); the block
\* appended its message before raising.  Quote: a price.
Down == [ok |-> FALSE, price |-> Zero, diagnosed |-> FALSE]
Rejected == [ok |-> FALSE, price |-> Zero, diagnosed |-> TRUE]
Quote(r) == [ok |-> TRUE, price |-> r, diagnosed |-> FALSE]
Outcomes == {Down} \cup {Quote(r) : r \in ProviderRates}

\* The answers with the failure kinds told apart.  get_exchange_rate does not
\* read error_messages, so only the specification of the provider functions
\* draws from this set.
DiagnosedOutcomes == Outcomes \cup {Rejected}

\* -------------------------------------------------------------- metadata

\* The keys of a metadata dict that the resolver, the cache and the UI read.
\* "-" stands for an absent string key, -1 for an absent number; a flag that
\* is absent reads as FALSE (every reader uses `in` or .get(key, False)).
BaseMeta ==
  [provider |-> "-", source_api |-> "-", error |-> "-", warning |-> "-",
   is_inverse |-> FALSE, cached |-> FALSE, cache_expired |-> FALSE,
   cache_age |-> -1, seconds_expired |-> -1,
   converted_amount |-> NoAmount, original_amount |-> NoAmount]

\* Python truthiness of metadata["error"]: absent and False are falsy, True
\* and a non-empty message are truthy (main.py: `"error" in metadata and
\* metadata["error"]`).
Truthy(v) == v \notin {"-", "False", ""}

\* No exception / the exception raised.  apis_tried is the provider list the
\* message of get_fiat_rate's RuntimeError names.
NoExc == <<>>
Exc(type, apis) == <<[type |-> type, apis_tried |-> apis]>>

\* What a called function hands back: a returned (rate, metadata) or a raise.
\* error_messages is the list whose join ends the text of the final error
\* (the RuntimeError of get_fiat_rate, metadata["error"] of get_crypto_rate):
\* the providers that recorded a message, in order.
Returned(rate, meta) ==
  [status |-> "return", rate |-> rate, metadata |-> meta, exc |-> NoExc,
   error_messages |-> <<>>]
Raised(e) ==
  [status |-> "raise", rate |-> Zero, metadata |-> BaseMeta, exc |-> e,
   error_messages |-> <<>>]

\* ----------------------------------------------------------------- cache

\* A cache keyed by the codes as they were passed.
GetCacheKeyAsPassed(source, target) == <<source, target>>

\* get_cache_key: f"{source.upper()}_{target.upper()}"
get_cache_key(source, target) == <<Upper(source), Upper(target)>>

\* dict assignment: cache[key] = entry
Put(cache, key, entry) ==
  [k \in (DOMAIN cache) \cup {key} |-> IF k = key THEN entry ELSE cache[k]]

\* expires_at of an entry written at t: time.time() + CACHE_TTL
ExpiresAt(t) == t + CACHE_TTL

\* The inverse entry stored with the direct rate instead of its reciprocal.
InverseRateNotInverted(rate) == rate

\* inverse_rate = 1 / rate
InverseRate(rate) == RInv(rate)

\* inverse_metadata: the copy tagged is_inverse
InverseMetadata(metadata) == [metadata EXCEPT !.is_inverse = TRUE]

\* The entry cache_rate builds at time t.
CacheEntry(t, rate, metadata) ==
  [rate |-> rate, metadata |-> metadata,
   expires_at |-> ExpiresAt(t), created_at |-> t]

\* cache_rate: the direct entry is stored first; 1 / rate is evaluated after
\* that store, so a zero rate raises ZeroDivisionError with the direct entry
\* already in the cache and no inverse entry written.
cache_rate(cache, t, source, target, rate, metadata) ==
  LET cache_entry == CacheEntry(t, rate, metadata)
      c1 == Put(cache, get_cache_key(source, target), cache_entry)
  IN IF IsZero(rate)
     THEN [cache |-> c1, exc |-> Exc("ZeroDivisionError", <<>>)]
     ELSE LET inverse_cache_entry ==
                CacheEntry(t, InverseRate(rate), InverseMetadata(metadata))
          IN [cache |-> Put(c1, get_cache_key(target, source),
                            inverse_cache_entry),
              exc |-> NoExc]

\* An entry that is already stale in the second it expires.
FreshBeforeExpiry(t, cache_entry) == t < cache_entry.expires_at

\* The freshness test of get_cached_rate: time.time() <= expires_at
Fresh(t, cache_entry) == t <= cache_entry.expires_at

\* A cache that never answers.
GetCachedRateMisses(cache, t, source, target, allow_expired) == <<>>

\* get_cached_rate: <<>> for None, else <<[rate, metadata]>> with the copy of
\* the entry's metadata tagged cached (and cache_expired when stale).
get_cached_rate(cache, t, source, target, allow_expired) ==
  LET cache_key == get_cache_key(source, target) IN
  IF cache_key \notin DOMAIN cache THEN <<>>
  ELSE LET cache_entry == cache[cache_key] IN
       IF Fresh(t, cache_entry) \/ allow_expired
       THEN LET stale == allow_expired /\ t > cache_entry.expires_at
                base == [cache_entry.metadata EXCEPT
                           !.cached = TRUE,
                           !.cache_age = t - cache_entry.created_at]
            IN <<[rate |-> cache_entry.rate,
                  metadata |->
                    IF stale
                    THEN [base EXCEPT
                            !.cache_expired = TRUE,
                            !.seconds_expired = t - cache_entry.expires_at]
                    ELSE base]>>
       ELSE <<>>

\* ------------------------------------------------------------- providers

\* get_fiat_rate's providers in the order of its three try blocks: the name
\* appended to apis_tried, and the "provider" tag of a success.
FiatApis == <<"ExchangeRate-API", "Frankfurter", "CurrencyAPI">>
FiatTags ==
  <<"ExchangeRate-API", "Frankfurter API (Backup)",
    "CurrencyAPI (Second Backup)">>

\* get_crypto_rate's providers, likewise.
CryptoApis == <<"CoinGecko", "CoinCap", "CryptoCompare">>
CryptoTags == <<"CoinGecko", "CoinCap", "CryptoCompare (Second Backup)">>

\* A get_fiat_rate that asks the pair endpoint before the table endpoint.
FiatEndpointsPairFirst ==
  <<"/latest?from={SRC}&to={TGT}", "/latest/{SRC}",
    "/latest/currencies/{src}/{tgt}.json">>

\* The path each try block of get_fiat_rate requests: open.er-api.com's rate
\* table of the source, Frankfurter's pair query, the currency-api file.
FiatEndpoints ==
  <<"/latest/{SRC}", "/latest?from={SRC}&to={TGT}",
    "/latest/currencies/{src}/{tgt}.json">>

\* The path each try block of get_crypto_rate requests.
CryptoEndpoints ==
  <<"/simple/price", "/assets/{id}", "/data/price?fsym={SRC}&tsyms={TGT}">>

\* validate_fiat / validate_crypto_currency: TRUE when the code passes.
validate_fiat(currency) == Upper(currency) \in FIAT_CURRENCIES
validate_crypto_currency(currency) == Upper(currency) \in CRYPTO_MAPPING

\* is_crypto: currency_code.upper() in CRYPTO_MAPPING
is_crypto(currency_code) == Upper(currency_code) \in CRYPTO_MAPPING

\* A provider chain in progress: the function, its normalised arguments, the
\* index of the try block to run next, apis_tried and error_messages so far,
\* and (get_crypto_rate inside its CoinCap block) the USD price awaiting the
\* USD->fiat pivot.
Frame(fn, source, target, leg) ==
  [fn |-> fn, source |-> source, target |-> target, idx |-> 1,
   apis_tried |-> <<>>, error_messages |-> <<>>, usd_rate |-> Zero,
   leg |-> leg]

\* get_fiat_rate testing for equal codes before it validates them.
GetFiatRateIdentityFirst(source, target) ==
  IF Upper(source) = Upper(target)
  THEN <<Returned(One, [BaseMeta EXCEPT !.provider = "self"])>>
  ELSE IF ~validate_fiat(source) \/ ~validate_fiat(target)
  THEN <<Raised(Exc("ValueError", <<>>))>>
  ELSE <<>>

\* get_fiat_rate up to its first request: <<result>> when it ends there (a
\* ValueError for an unsupported code, the identity rate for equal codes),
\* <<>> when the provider chain has to run.
get_fiat_rate_entry(source, target) ==
  IF ~validate_fiat(source) \/ ~validate_fiat(target)
  THEN <<Raised(Exc("ValueError", <<>>))>>
  ELSE IF Upper(source) = Upper(target)
  THEN <<Returned(One, [BaseMeta EXCEPT !.provider = "self"])>>
  ELSE <<>>

\* get_crypto_rate up to its first request.
get_crypto_rate_entry(crypto, fiat) ==
  IF ~validate_crypto_currency(crypto) \/ Upper(fiat) \notin FIAT_CURRENCIES
  THEN <<Raised(Exc("ValueError", <<>>))>>
  ELSE <<>>

\* The frame a call starts its chain with: get_fiat_rate upper-cases both
\* codes, get_crypto_rate upper-cases crypto and lower-cases fiat.
NewFrame(fn, a, b, leg) ==
  IF fn = "fiat" THEN Frame("fiat", Upper(a), Upper(b), leg)
  ELSE Frame("crypto", Upper(a), Lower(b), leg)

\* get_crypto_rate ending like get_fiat_rate, with a raise.
CryptoExhaustedRaises(frame) == Raised(Exc("RuntimeError", frame.apis_tried))

\* The zero-rate sentinel get_crypto_rate returns when its three providers
\* have failed: rate 0.0, provider "Error", an "error" message.
CryptoSentinel(frame) ==
  [Returned(Zero, [BaseMeta EXCEPT
                     !.provider = "Error",
                     !.error = "Failed to retrieve cryptocurrency rate"])
     EXCEPT !.error_messages = frame.error_messages]

\* get_fiat_rate ending like get_crypto_rate, with a zero-rate sentinel
\* instead of the raise.
FiatExhaustedSentinel(frame) ==
  Returned(Zero, [BaseMeta EXCEPT !.provider = "Error"])

\* The end of get_fiat_rate after its three providers have failed.
FiatExhausted(frame) ==
  [Raised(Exc("RuntimeError", frame.apis_tried))
     EXCEPT !.error_messages = frame.error_messages]

\* A chain that goes from its first provider straight to its last.
NextBlockSkipsBackup(frame) ==
  IF frame.idx < 3
  THEN [frame |-> <<[frame EXCEPT !.idx = 3]>>, res |-> <<>>]
  ELSE [frame |-> <<>>,
        res |-> <<IF frame.fn = "fiat" THEN FiatExhausted(frame)
                  ELSE CryptoSentinel(frame)>>]

\* The end of a chain whose try block idx got no usable answer: the next
\* block, or after the third the function's final statement.
NextBlock(frame) ==
  IF frame.idx < 3
  THEN [frame |-> <<[frame EXCEPT !.idx = frame.idx + 1]>>, res |-> <<>>]
  ELSE [frame |-> <<>>,
        res |-> <<IF frame.fn = "fiat" THEN FiatExhausted(frame)
                  ELSE CryptoSentinel(frame)>>]

\* A try block that is entered again after its provider failed.
TryBlockRetries(frame, o) ==
  IF ~o.ok
  THEN [frame |-> <<frame>>, res |-> <<>>, pivot |-> <<>>]
  ELSE [frame |-> <<>>, pivot |-> <<>>,
        res |-> <<Returned(o.price,
                   [BaseMeta EXCEPT
                      !.provider = IF frame.fn = "fiat"
                                   THEN FiatTags[frame.idx]
                                   ELSE CryptoTags[frame.idx]])>>]

\* One try block of the chain `frame` with the provider's answer o.  The
\* result is the frame to go on with (<<>> when the function has ended), the
\* function's result (<<>> while it runs), and the pivot call the CoinCap
\* block makes for a non-USD fiat (<<>> when none).
TryBlock(frame, o) ==
  LET api == IF frame.fn = "fiat" THEN FiatApis[frame.idx]
             ELSE CryptoApis[frame.idx]
      f == [frame EXCEPT !.apis_tried = Append(@, api)]
  IN IF ~o.ok
     THEN NextBlock([f EXCEPT
                       !.error_messages =
                         IF o.diagnosed THEN Append(@, api) ELSE @])
            @@ [pivot |-> <<>>]
     ELSE IF f.fn = "fiat"
     THEN [frame |-> <<>>, pivot |-> <<>>,
           res |-> <<Returned(o.price,
                      [BaseMeta EXCEPT !.provider = FiatTags[f.idx]])>>]
     ELSE IF f.idx = 2 /\ f.target # "usd"
     THEN [frame |-> <<[f EXCEPT !.usd_rate = o.price]>>, res |-> <<>>,
           pivot |-> <<[source |-> "USD", target |-> Upper(f.target)]>>]
     ELSE [frame |-> <<>>, pivot |-> <<>>,
           res |-> <<Returned(o.price,
                      [BaseMeta EXCEPT !.provider = CryptoTags[f.idx]])>>]

\* A CoinCap block that returns its USD price whatever became of the pivot.
AfterPivotKeepsUsd(frame, r) ==
  [frame |-> <<>>,
   res |-> <<Returned(frame.usd_rate,
              [BaseMeta EXCEPT !.provider = CryptoTags[2]])>>]

\* The CoinCap block of `frame` once its pivot get_fiat_rate("USD", fiat) has
\* ended with r: final_rate = usd_rate * fiat_rate, or the block records
\* "Failed to convert USD to ..." and fails.
AfterPivot(frame, r) ==
  IF r.status = "return"
  THEN [frame |-> <<>>,
        res |-> <<Returned(RMul(frame.usd_rate, r.rate),
                   [BaseMeta EXCEPT !.provider = CryptoTags[2]])>>]
  ELSE NextBlock([frame EXCEPT
                    !.usd_rate = Zero,
                    !.error_messages = Append(@, CryptoApis[2])])

\* -------------------------------------------------------------- resolver

\* What a top-level call has produced: nothing yet ("-"), a returned
\* (rate, metadata) or a raised exception.  `via` names the return statement
\* of get_exchange_rate that was taken: "cache" (line 38), "providers" (line
\* 111), "recent" (line 125), "expired" (line 143), "sentinel" (line 159).
\* converted_amount is the first component of what convert_currency returns
\* (NoAmount for the other functions).
NoResult ==
  [status |-> "-", via |-> "-", rate |-> Zero, metadata |-> BaseMeta,
   exc |-> NoExc, converted_amount |-> NoAmount]
Ret(via, rate, meta) ==
  [status |-> "return", via |-> via, rate |-> rate, metadata |-> meta,
   exc |-> NoExc, converted_amount |-> NoAmount]
Propagate(e) ==
  [status |-> "raise", via |-> "-", rate |-> Zero, metadata |-> BaseMeta,
   exc |-> e, converted_amount |-> NoAmount]

Invoke(fn, a, b) == [fn |-> fn, a |-> a, b |-> b]

\* The provider-function calls the try block of get_exchange_rate makes, in
\* order, for (source, target).  `target == "USD"` and `source == "USD"`
\* compare the strings as passed.
Plan(source, target) ==
  IF is_crypto(source) /\ is_crypto(target)
  THEN <<Invoke("crypto", source, "USD"), Invoke("crypto", target, "USD")>>
  ELSE IF is_crypto(source) /\ ~is_crypto(target)
  THEN IF target = "USD"
       THEN <<Invoke("crypto", source, "USD")>>
       ELSE <<Invoke("crypto", source, "USD"), Invoke("fiat", "USD", target)>>
  ELSE IF ~is_crypto(source) /\ is_crypto(target)
  THEN IF source = "USD"
       THEN <<Invoke("crypto", target, "USD")>>
       ELSE <<Invoke("fiat", source, "USD"), Invoke("crypto", target, "USD")>>
  ELSE <<Invoke("fiat", source, target)>>

\* A call up to its first request.
Entry(inv) ==
  IF inv.fn = "fiat" THEN get_fiat_rate_entry(inv.a, inv.b)
  ELSE get_crypto_rate_entry(inv.a, inv.b)

Composite(source_api) == [BaseMeta EXCEPT !.source_api = source_api]

\* A resolver that hands on the result of its first provider call whatever
\* the pair.
ComputePassThrough(source, target, legs) ==
  Returned(legs[1].rate, legs[1].metadata)

\* The rate and metadata get_exchange_rate computes from the results of its
\* provider calls (lines 46-106); a division by a zero rate raises.
Compute(source, target, legs) ==
  IF is_crypto(source) /\ is_crypto(target)
  THEN IF IsZero(legs[2].rate) THEN Raised(Exc("ZeroDivisionError", <<>>))
       ELSE Returned(RDiv(legs[1].rate, legs[2].rate), Composite("CoinGecko"))
  ELSE IF is_crypto(source) /\ ~is_crypto(target)
  THEN IF target = "USD"
       THEN Returned(legs[1].rate, legs[1].metadata)
       ELSE Returned(RMul(legs[1].rate, legs[2].rate),
                     Composite("CoinGecko + ExchangeRate-API"))
  ELSE IF ~is_crypto(source) /\ is_crypto(target)
  THEN IF source = "USD"
       THEN IF IsZero(legs[1].rate)
            THEN Raised(Exc("ZeroDivisionError", <<>>))
            ELSE Returned(RInv(legs[1].rate), Composite("CoinGecko"))
       ELSE IF IsZero(legs[2].rate)
            THEN Raised(Exc("ZeroDivisionError", <<>>))
            ELSE Returned(RMul(legs[1].rate, RInv(legs[2].rate)),
                          Composite("ExchangeRate-API + CoinGecko"))
  ELSE Returned(legs[1].rate, legs[1].metadata)

\* A handler written for the providers' errors only:
\* `except (ValueError, RuntimeError)`.
CatchesProviderErrorsOnly(e) == e[1].type \in {"ValueError", "RuntimeError"}

\* `except Exception`: every exception the try block can raise is caught.
Catches(e) == e[1].type \in {"ValueError", "RuntimeError", "ZeroDivisionError"}

\* The except handler of get_exchange_rate (lines 113-159) on the cache as
\* the try block left it.
Handler(cache, t, source, target, e) ==
  IF ~Catches(e) THEN Propagate(e)
  ELSE LET cached_data == get_cached_rate(cache, t, source, target, FALSE)
           expired_cached_data ==
             get_cached_rate(cache, t, source, target, TRUE)
       IN IF cached_data # <<>>
          THEN Ret("recent", cached_data[1].rate,
                   [cached_data[1].metadata EXCEPT
                      !.warning =
                        "Using cached rate due to API error (recent cache)"])
          ELSE IF expired_cached_data # <<>>
          THEN Ret("expired", expired_cached_data[1].rate,
                   [expired_cached_data[1].metadata EXCEPT
                      !.warning =
                        "Using expired cached rate due to API error"])
          ELSE Ret("sentinel", Zero,
                   [BaseMeta EXCEPT
                      !.error = "True",
                      !.warning = "Using fallback zero rate due to API errors and no cache available"])

\* The state a call is left in: between two requests ("chain", with the
\* frame of the running provider function) or ended ("done").
Running(cache, legs, frame) ==
  [pc |-> "chain", stack |-> <<frame>>, legs |-> legs, cache |-> cache,
   result |-> NoResult]
Ended(cache, legs, result) ==
  [pc |-> "done", stack |-> <<>>, legs |-> legs, cache |-> cache,
   result |-> result]

\* Lines 108-111 of get_exchange_rate: the cache write and the return, or
\* the handler when the computation or cache_rate raised.
Finish(cache, t, source, target, legs) ==
  LET c == Compute(source, target, legs) IN
  IF c.status = "raise"
  THEN Ended(cache, legs, Handler(cache, t, source, target, c.exc))
  ELSE LET w == cache_rate(cache, t, source, target, c.rate, c.metadata) IN
       IF w.exc # NoExc
       THEN Ended(w.cache, legs, Handler(w.cache, t, source, target, w.exc))
       ELSE Ended(w.cache, legs, Ret("providers", c.rate, c.metadata))

\* get_exchange_rate from the point where `legs` of its provider calls have
\* returned, up to its next request or its end.
RECURSIVE Advance(_, _, _, _, _)
Advance(cache, t, source, target, legs) ==
  LET plan == Plan(source, target) IN
  IF Len(legs) = Len(plan) THEN Finish(cache, t, source, target, legs)
  ELSE LET inv == plan[Len(legs) + 1]
           imm == Entry(inv)
       IN IF imm = <<>>
          THEN Running(cache, legs,
                       NewFrame(inv.fn, inv.a, inv.b, Len(legs) + 1))
          ELSE IF imm[1].status = "raise"
          THEN Ended(cache, Append(legs, imm[1]),
                     Handler(cache, t, source, target, imm[1].exc))
          ELSE Advance(cache, t, source, target, Append(legs, imm[1]))

\* get_exchange_rate without its first cache check.
GetExchangeRateNoCacheCheck(cache, t, source, target) ==
  Advance(cache, t, source, target, <<>>)

\* get_exchange_rate from its first line: the fresh-cache check, then the
\* try block.
get_exchange_rate(cache, t, source, target) ==
  LET cached_data == get_cached_rate(cache, t, source, target, FALSE) IN
  IF cached_data # <<>>
  THEN Ended(cache, <<>>,
             Ret("cache", cached_data[1].rate, cached_data[1].metadata))
  ELSE Advance(cache, t, source, target, <<>>)

\* The result of a provider function called on its own.
Direct(r) ==
  [status |-> r.status, via |-> "direct", rate |-> r.rate,
   metadata |-> r.metadata, exc |-> r.exc, converted_amount |-> NoAmount]

\* converted_amount = amount * rate
ConvertedAmount(amount, rate) == RMul(amount, rate)

\* Lines 176-182 of convert_currency on the state e in which its call of
\* get_exchange_rate ended: the two amounts are stored into the metadata dict
\* that call returned.  After `return rate, metadata` (line 111) that dict is
\* the object cache_rate stored in the entry of (source, target), so the
\* entry's metadata changes with it -- unless the two keys of the pair
\* coincide, where the inverse entry (a copy) has replaced it.  The other
\* returns hand out a copy made by get_cached_rate or a new dict.
AfterExchange(amount, source, target, e) ==
  IF e.pc # "done" \/ e.result.status # "return" THEN e
  ELSE LET converted_amount == ConvertedAmount(amount, e.result.rate)
           metadata == [e.result.metadata EXCEPT
                          !.converted_amount = converted_amount,
                          !.original_amount = amount]
           cache_key == get_cache_key(source, target)
           shared == /\ e.result.via = "providers"
                     /\ cache_key # get_cache_key(target, source)
       IN [e EXCEPT
             !.result.metadata = metadata,
             !.result.converted_amount = converted_amount,
             !.cache = IF shared
                       THEN [e.cache EXCEPT ![cache_key].metadata = metadata]
                       ELSE e.cache]

\* convert_currency from its first line up to its first request or its end.
convert_currency(cache, t, amount, source_currency, target_currency) ==
  AfterExchange(amount, source_currency, target_currency,
                get_exchange_rate(cache, t, source_currency, target_currency))

\* The provider function at the bottom of the stack has ended with r: the
\* caller goes on from there.
Deliver(cache, t, c, legs, r) ==
  LET resumed ==
        IF r.status = "raise"
        THEN Ended(cache, Append(legs, r),
                   Handler(cache, t, c.source, c.target, r.exc))
        ELSE Advance(cache, t, c.source, c.target, Append(legs, r))
  IN IF c.op = "get_exchange_rate" THEN resumed
     ELSE IF c.op = "convert_currency"
     THEN AfterExchange(c.amount, c.source, c.target, resumed)
     ELSE Ended(cache, Append(legs, r), Direct(r))

\* One request of the running chain, answered o: the frames afterwards and,
\* when the bottom function has ended, its result.
ChainStep(stk, o) ==
  LET top == stk[Len(stk)]
      below == SubSeq(stk, 1, Len(stk) - 1)
      tb == TryBlock(top, o)
  IN IF tb.pivot # <<>>
     THEN LET pe == get_fiat_rate_entry(tb.pivot[1].source,
                                         tb.pivot[1].target)
          IN IF pe = <<>>
             THEN [stack |-> below \o tb.frame \o
                             <<NewFrame("fiat", tb.pivot[1].source,
                                        tb.pivot[1].target, top.leg)>>,
                   res |-> <<>>]
             ELSE LET ap == AfterPivot(tb.frame[1], pe[1])
                  IN [stack |-> below \o ap.frame, res |-> ap.res]
     ELSE IF tb.res = <<>>
     THEN [stack |-> below \o tb.frame, res |-> <<>>]
     ELSE IF below = <<>>
     THEN [stack |-> <<>>, res |-> tb.res]
     ELSE LET ap == AfterPivot(below[Len(below)], tb.res[1])
          IN [stack |-> SubSeq(below, 1, Len(below) - 1) \o ap.frame,
              res |-> ap.res]

\* get_exchange_rate(source, target), begun at time t and now in state e,
\* run on with the provider answers `answers` one request after the other:
\* the state it reaches, and how many of the answers it did not ask for.
RECURSIVE Replay(_, _, _, _, _)
Replay(e, t, source, target, answers) ==
  IF e.pc = "done" \/ answers = <<>>
  THEN [state |-> e, unused |-> Len(answers)]
  ELSE LET cs == ChainStep(e.stack, answers[1])
           c == [op |-> "get_exchange_rate", amount |-> NoAmount,
                 source |-> source, target |-> target]
       IN Replay(IF cs.res = <<>> THEN [e EXCEPT !.stack = cs.stack]
                 ELSE Deliver(e.cache, t, c, e.legs, cs.res[1]),
                 t, source, target, Tail(answers))

\* ------------------------------------------------------------------ state

VARIABLES
  rate_cache,  \* st.session_state.rate_cache: cache key -> cache entry
  now,         \* time.time()
  nticks,      \* clock advances so far
  ncalls,      \* top-level calls so far
  pc,          \* "idle", "chain" (a call waits for a provider), "done"
  call,        \* the running call: function, arguments, start time, the
               \* cache entry its key held when it started (<<>> if none)
               \* and the whole cache as it was then
  stack,       \* frames of the provider functions in progress
  legs,        \* results of the call's provider functions so far
  attempts,    \* the requests the running call has made, in order
  result,      \* what the call returned or raised
  lastOk,      \* the latest resolution that returned through the providers
  conversion_history,  \* st.session_state.conversion_history
  racers       \* calls of get_exchange_rate running side by side on the cache

vars ==
  <<rate_cache, now, nticks, ncalls, pc, call, stack, legs, attempts, result,
    lastOk, conversion_history, racers>>

NoCall ==
  [op |-> "-", amount |-> NoAmount, source |-> "-", target |-> "-", at |-> 0,
   had |-> <<>>, cache |-> <<>>]

\* The callers that may run get_exchange_rate side by side, and one of them
\* before its call: "idle", then "chain" (waiting for a provider), "store"
\* (inside cache_rate, before the direct entry is stored), "invert" (the
\* direct entry stored, before 1 / rate), "done".
Racers == 1..MaxRacers
IdleRacer ==
  [pc |-> "idle", source |-> "-", target |-> "-", stack |-> <<>>,
   legs |-> <<>>, pending |-> NoResult, result |-> NoResult, requests |-> 0]

\* The pairs raced for: one resolved by get_fiat_rate alone, one by
\* get_crypto_rate alone.
RacePairs == {<<"USD", "EUR">>, <<"BTC", "USD">>}

\* The clock steps: one second, or a whole TTL.
TickSteps == {1, CACHE_TTL}

\* initialize_cache: rate_cache = {}
Init ==
  /\ rate_cache = <<>>
  /\ now = 0
  /\ nticks = 0
  /\ ncalls = 0
  /\ pc = "idle"
  /\ call = NoCall
  /\ stack = <<>>
  /\ legs = <<>>
  /\ attempts = <<>>
  /\ result = NoResult
  /\ lastOk = <<>>
  /\ conversion_history = <<>>
  /\ racers = [p \in Racers |-> IdleRacer]

Held(key) == IF key \in DOMAIN rate_cache THEN <<rate_cache[key]>> ELSE <<>>

\* get_exchange_rate reads only the key of (source, target) and writes only
\* that key and its inverse, so entries of other pairs are a frame: a
\* behaviour follows the pair whose entries the cache holds.
OnePair(source, target) ==
  DOMAIN rate_cache \subseteq
    {get_cache_key(source, target), get_cache_key(target, source)}

Begin(op, amount, source, target, r) ==
  /\ call' = [op |-> op, amount |-> amount, source |-> source,
              target |-> target, at |-> now,
              had |-> Held(get_cache_key(source, target)),
              cache |-> rate_cache]
  /\ pc' = r.pc
  /\ stack' = r.stack
  /\ legs' = r.legs
  /\ rate_cache' = r.cache
  /\ result' = r.result
  /\ attempts' = <<>>
  /\ ncalls' = ncalls + 1
  /\ UNCHANGED <<now, nticks, lastOk, conversion_history, racers>>

\* get_exchange_rate(source, target) up to its first request.
CallExchange(source, target) ==
  /\ pc = "idle"
  /\ ncalls < MaxCalls
  /\ OnePair(source, target)
  /\ Begin("get_exchange_rate", NoAmount, source, target,
           get_exchange_rate(rate_cache, now, source, target))

\* get_fiat_rate(source, target) called on its own.
CallFiat(source, target) ==
  /\ pc = "idle"
  /\ ncalls < MaxCalls
  /\ LET imm == get_fiat_rate_entry(source, target) IN
     Begin("get_fiat_rate", NoAmount, source, target,
           IF imm = <<>>
           THEN Running(rate_cache, <<>>, NewFrame("fiat", source, target, 1))
           ELSE Ended(rate_cache, imm, Direct(imm[1])))

\* get_crypto_rate(crypto, fiat) called on its own.
CallCrypto(crypto, fiat) ==
  /\ pc = "idle"
  /\ ncalls < MaxCalls
  /\ LET imm == get_crypto_rate_entry(crypto, fiat) IN
     Begin("get_crypto_rate", NoAmount, crypto, fiat,
           IF imm = <<>>
           THEN Running(rate_cache, <<>>, NewFrame("crypto", crypto, fiat, 1))
           ELSE Ended(rate_cache, imm, Direct(imm[1])))

\* The Convert button of main (lines 39-42): convert_currency(amount, source,
\* target) up to its first request.
Convert(amount, source, target) ==
  /\ pc = "idle"
  /\ OnePair(source, target)
  /\ Begin("convert_currency", amount, source, target,
           convert_currency(rate_cache, now, amount, source, target))

\* The request a chain is about to make, as the log records it.
Request(stk, o) ==
  LET top == stk[Len(stk)] IN
  [leg |-> top.leg, depth |-> Len(stk), fn |-> top.fn,
   api |-> IF top.fn = "fiat" THEN FiatApis[top.idx] ELSE CryptoApis[top.idx],
   endpoint |-> IF top.fn = "fiat" THEN FiatEndpoints[top.idx]
                ELSE CryptoEndpoints[top.idx],
   ok |-> o.ok, price |-> o.price, diagnosed |-> o.diagnosed]

\* One requests.get of the running call, answered o, and the code that
\* follows it up to the next request or the end of the call.
Attempt(o) ==
  /\ pc = "chain"
  /\ LET cs == ChainStep(stack, o) IN
     /\ attempts' = Append(attempts, Request(stack, o))
     /\ IF cs.res = <<>>
        THEN /\ stack' = cs.stack
             /\ UNCHANGED <<pc, legs, rate_cache, result>>
        ELSE LET r == Deliver(rate_cache, now, call, legs, cs.res[1]) IN
             /\ pc' = r.pc
             /\ stack' = r.stack
             /\ legs' = r.legs
             /\ rate_cache' = r.cache
             /\ result' = r.result
  /\ UNCHANGED <<now, nticks, ncalls, call, lastOk, conversion_history,
                 racers>>

\* The record main appends after convert_currency has returned (lines
\* 61-79).  Amounts are positive, so the rate main computes where the
\* metadata has none, result / amount, is the rate of the call.
HistoryRecord(c, r) ==
  [timestamp |-> c.at, source |-> c.source, target |-> c.target,
   amount |-> c.amount, result |-> r.converted_amount, rate |-> r.rate,
   error |-> Truthy(r.metadata.error)]

\* The rows the history table shows: conversion_history[-10:]
HistoryShown == 10

\* A table of the first ten conversions instead of the last ten.
HistoryTableOldest(history) ==
  SubSeq(history, 1,
         IF Len(history) > HistoryShown THEN HistoryShown ELSE Len(history))

HistoryTable(history) ==
  SubSeq(history,
         IF Len(history) > HistoryShown THEN Len(history) - HistoryShown + 1
         ELSE 1,
         Len(history))

\* The caller takes the result; the session is ready for the next call.
\* main stores a conversion that returned in the history; one that raised
\* goes to its except clause (line 81), which stores nothing.
Return ==
  /\ pc = "done"
  /\ pc' = "idle"
  /\ lastOk' = IF result.via = "providers"
               THEN <<[op |-> call.op, amount |-> call.amount,
                       converted_amount |-> result.converted_amount,
                       source |-> call.source, target |-> call.target,
                       rate |-> result.rate, at |-> call.at]>>
               ELSE lastOk
  /\ conversion_history' =
       IF call.op = "convert_currency" /\ result.status = "return"
       THEN Append(conversion_history, HistoryRecord(call, result))
       ELSE conversion_history
  /\ call' = NoCall
  /\ legs' = <<>>
  /\ attempts' = <<>>
  /\ result' = NoResult
  /\ UNCHANGED <<rate_cache, now, nticks, ncalls, stack, racers>>

\* Time passes between two calls.
Tick(dt) ==
  /\ pc = "idle"
  /\ nticks < MaxTicks
  /\ now' = now + dt
  /\ nticks' = nticks + 1
  /\ UNCHANGED <<rate_cache, ncalls, pc, call, stack, legs, attempts, result,
                 lastOk, conversion_history, racers>>

Next ==
  \/ \E source \in Codes, target \in Codes : CallExchange(source, target)
  \/ \E source \in Codes, target \in Codes : CallFiat(source, target)
  \/ \E crypto \in Codes, fiat \in Codes : CallCrypto(crypto, fiat)
  \/ \E o \in Outcomes : Attempt(o)
  \/ Return
  \/ \E dt \in TickSteps : Tick(dt)

Spec == Init /\ [][Next]_vars

\* The provider functions on their own, with the failure kinds told apart.
NextProviders ==
  \/ \E source \in Codes, target \in Codes : CallFiat(source, target)
  \/ \E crypto \in Codes, fiat \in Codes : CallCrypto(crypto, fiat)
  \/ \E o \in DiagnosedOutcomes : Attempt(o)
  \/ Return

SpecProviders == Init /\ [][NextProviders]_vars

\* The amounts typed into the amount field: one of Amounts, or the result of
\* the latest conversion typed back.
AmountInputs ==
  Amounts \cup {lastOk[i].converted_amount : i \in 1..Len(lastOk)}

\* A session of main: the Convert button with the codes the select boxes
\* offer, and time passing.
NextSession ==
  \/ \E amount \in AmountInputs, source \in SessionCodes,
        target \in SessionCodes :
       ncalls < MaxCalls /\ Convert(amount, source, target)
  \/ \E o \in Outcomes : Attempt(o)
  \/ Return
  \/ \E dt \in TickSteps : Tick(dt)

SpecSession == Init /\ [][NextSession]_vars

\* A long session on one pair and one amount: enough conversions for the
\* history to outgrow its table.
NextHistory ==
  \/ /\ ncalls < MaxConversions
     /\ Convert(Rat(3, 1), "USD", "EUR")
  \/ \E o \in {Down, Quote(Rat(2, 1))} : Attempt(o)
  \/ Return
  \/ Tick(CACHE_TTL)

SpecHistory == Init /\ [][NextHistory]_vars

\* get_exchange_rate(source, target) entered by caller p while other callers
\* may be inside it for the same pair: the fresh-cache check, and the try
\* block up to its first request.
RaceCall(p, source, target) ==
  /\ pc = "idle"
  /\ racers[p].pc = "idle"
  /\ \A q \in Racers :
       racers[q].pc # "idle"
         => racers[q].source = source /\ racers[q].target = target
  /\ LET e == get_exchange_rate(rate_cache, now, source, target) IN
     /\ racers' = [racers EXCEPT
                     ![p] = [pc |-> e.pc, source |-> source,
                             target |-> target, stack |-> e.stack,
                             legs |-> e.legs, pending |-> NoResult,
                             result |-> e.result, requests |-> 0]]
     /\ rate_cache' = e.cache
  /\ UNCHANGED <<now, nticks, ncalls, pc, call, stack, legs, attempts, result,
                 lastOk, conversion_history>>

\* One request of caller p answered o, and the code after it up to the next
\* request, to the entry of cache_rate, or through the except handler.
RaceAttempt(p, o) ==
  LET r == racers[p]
      cs == ChainStep(r.stack, o)
      n == r.requests + 1
  IN /\ r.pc = "chain"
     /\ IF cs.res = <<>>
        THEN racers' = [racers EXCEPT ![p].stack = cs.stack,
                                      ![p].requests = n]
        ELSE LET legs2 == Append(r.legs, cs.res[1])
                 c == IF cs.res[1].status = "raise" THEN cs.res[1]
                      ELSE Compute(r.source, r.target, legs2)
             IN racers' =
                  [racers EXCEPT
                     ![p] = IF c.status = "raise"
                            THEN [r EXCEPT
                                    !.pc = "done", !.stack = <<>>,
                                    !.legs = legs2, !.requests = n,
                                    !.result = Handler(rate_cache, now,
                                                       r.source, r.target,
                                                       c.exc)]
                            ELSE [r EXCEPT
                                    !.pc = "store", !.stack = <<>>,
                                    !.legs = legs2, !.requests = n,
                                    !.pending = Ret("providers", c.rate,
                                                    c.metadata)]]
     /\ UNCHANGED <<rate_cache, now, nticks, ncalls, pc, call, stack, legs,
                    attempts, result, lastOk, conversion_history>>

\* cache_rate of caller p up to the store of the direct entry (cache.py
\* 30-40).
RaceStore(p) ==
  LET r == racers[p] IN
  /\ r.pc = "store"
  /\ rate_cache' = Put(rate_cache, get_cache_key(r.source, r.target),
                       CacheEntry(now, r.pending.rate, r.pending.metadata))
  /\ racers' = [racers EXCEPT ![p].pc = "invert"]
  /\ UNCHANGED <<now, nticks, ncalls, pc, call, stack, legs, attempts, result,
                 lastOk, conversion_history>>

\* cache_rate of caller p from 1 / rate to the store of the inverse entry
\* (cache.py 44-58) and the return of get_exchange_rate, or the except
\* handler when the division raised.
RaceInvert(p) ==
  LET r == racers[p] IN
  /\ r.pc = "invert"
  /\ IF IsZero(r.pending.rate)
     THEN /\ racers' = [racers EXCEPT
                          ![p].pc = "done",
                          ![p].result =
                            Handler(rate_cache, now, r.source, r.target,
                                    Exc("ZeroDivisionError", <<>>))]
          /\ UNCHANGED rate_cache
     ELSE /\ rate_cache' =
               Put(rate_cache, get_cache_key(r.target, r.source),
                   CacheEntry(now, InverseRate(r.pending.rate),
                              InverseMetadata(r.pending.metadata)))
          /\ racers' = [racers EXCEPT ![p].pc = "done",
                                      ![p].result = r.pending]
  /\ UNCHANGED <<now, nticks, ncalls, pc, call, stack, legs, attempts, result,
                 lastOk, conversion_history>>

\* Callers of get_exchange_rate for one pair, each making one call, their
\* steps interleaved on the one cache.
NextRace ==
  \/ \E p \in Racers, pair \in RacePairs : RaceCall(p, pair[1], pair[2])
  \/ \E p \in Racers, o \in Outcomes : RaceAttempt(p, o)
  \/ \E p \in Racers : RaceStore(p)
  \/ \E p \in Racers : RaceInvert(p)

SpecRace == Init /\ [][NextRace]_vars

\* ------------------------------------------------------- shared notions

Exchange == call.op = "get_exchange_rate"

\* A supported code as the registries spell it.
Supported == FIAT_CURRENCIES \cup CRYPTO_MAPPING

\* The running call has made a request, and no request of it was answered.
AllProvidersFailed ==
  /\ attempts # <<>>
  /\ \A i \in 1..Len(attempts) : ~attempts[i].ok

\* ---------------------------------------------------------------- claims

\* C1: for every supported code X, fiat or crypto, get_exchange_rate(X, X)
\* makes no provider call and returns rate 1.0.
C1_IdentityNoCall ==
  (Exchange /\ call.source = call.target /\ call.source \in Supported)
    => /\ attempts = <<>>
       /\ pc = "done" => (result.status = "return" /\ result.rate = One)

\* C2: when every provider fails during get_exchange_rate(A, B) and the cache
\* held no entry for (A, B) at the start, the call returns rate 0.0 with a
\* metadata "error" that the UI reads as true.
C2_TotalFailure ==
  (Exchange /\ pc = "done" /\ AllProvidersFailed /\ call.had = <<>>)
    => /\ result.status = "return"
       /\ result.rate = Zero
       /\ Truthy(result.metadata.error)

\* C4: when the cache holds an expired entry for (A, B) with rate r and every
\* provider fails, get_exchange_rate(A, B) returns r with a warning and
\* cache_expired = true, and the entry is still cached with rate r.
C4_StaleFallback ==
  (/\ Exchange /\ pc = "done" /\ AllProvidersFailed
   /\ call.had # <<>> /\ call.at > call.had[1].expires_at)
    => /\ result.status = "return"
       /\ result.rate = call.had[1].rate
       /\ result.metadata.warning # "-"
       /\ result.metadata.cache_expired
       /\ Held(get_cache_key(call.source, call.target)) # <<>>
       /\ Held(get_cache_key(call.source, call.target))[1].rate
            = call.had[1].rate

\* C5: no cache entry ever has rate 0.
C5_NoZeroCached ==
  \A k \in DOMAIN rate_cache : ~IsZero(rate_cache[k].rate)

\* C6: the cache is reciprocal: with (A, B) present at rate r, (B, A) is
\* present at rate 1/r.
C6_Reciprocal ==
  \A k \in DOMAIN rate_cache :
    /\ <<k[2], k[1]>> \in DOMAIN rate_cache
    /\ ~IsZero(rate_cache[k].rate)
    /\ rate_cache[<<k[2], k[1]>>].rate = RInv(rate_cache[k].rate)

\* C3: with the cache initialized, get_exchange_rate never raises, whatever
\* the code strings, the cache content and the providers' answers.
C3_NeverRaises == Exchange => result.status # "raise"

\* An exception raised inside the try block (here the ZeroDivisionError of
\* cache_rate) was turned into a returned result.
C3_Witness ==
  /\ Exchange /\ pc = "done"
  /\ result.status = "return" /\ result.via = "recent"

\* C7: after cache_rate(A, B, r, meta) with r # 0 and A, B different
\* currencies, get_cached_rate(A, B) returns r, get_cached_rate(B, A)
\* returns 1/r tagged is_inverse, and both entries expire 1800 seconds after
\* the write (still served at +1800, gone at +1801).
C7_CacheRateReciprocal ==
  (/\ Exchange /\ pc = "done" /\ result.via = "providers"
   /\ Upper(call.source) # Upper(call.target))
    => LET direct ==
             get_cached_rate(rate_cache, now, call.source, call.target, FALSE)
           inverse ==
             get_cached_rate(rate_cache, now, call.target, call.source, FALSE)
           AtAge(age, a, b) ==
             get_cached_rate(rate_cache, now + age, a, b, FALSE)
       IN /\ direct # <<>> /\ direct[1].rate = result.rate
          /\ inverse # <<>> /\ inverse[1].rate = RInv(result.rate)
          /\ inverse[1].metadata.is_inverse
          /\ AtAge(1800, call.source, call.target) # <<>>
          /\ AtAge(1800, call.target, call.source) # <<>>
          /\ AtAge(1801, call.source, call.target) = <<>>
          /\ AtAge(1801, call.target, call.source) = <<>>

\* cache_rate has just stored a rate other than 1 for two different
\* currencies.
C7_Witness ==
  /\ Exchange /\ pc = "done" /\ result.via = "providers"
  /\ Upper(call.source) # Upper(call.target)
  /\ result.rate = Rat(2, 1)

SamePair(a, b, c, d) == Upper(a) = Upper(c) /\ Upper(b) = Upper(d)

\* C8: after a get_exchange_rate(A, B) that returned rate r through the
\* providers, a get_exchange_rate(A, B) or (B, A) made within the next 1800
\* seconds makes no provider call and returns r, respectively 1/r, tagged
\* cached.
C8_ServedFromCache ==
  (Exchange /\ lastOk # <<>> /\ call.at <= lastOk[1].at + 1800)
    => LET ok == lastOk[1] IN
       /\ SamePair(call.source, call.target, ok.source, ok.target)
            => /\ attempts = <<>>
               /\ pc = "done" => /\ result.rate = ok.rate
                                 /\ result.metadata.cached
       /\ SamePair(call.source, call.target, ok.target, ok.source)
            => /\ attempts = <<>>
               /\ pc = "done" => /\ result.rate = RInv(ok.rate)
                                 /\ result.metadata.cached

\* The provider function call number L of the running call.
LegInvoke(L) ==
  IF call.op \in {"get_exchange_rate", "convert_currency"}
  THEN Plan(call.source, call.target)[L]
  ELSE Invoke(IF call.op = "get_fiat_rate" THEN "fiat" ELSE "crypto",
              call.source, call.target)

\* The requests that function call made itself / inside its CoinCap pivot.
LegRequests(L) ==
  LET Own(a) == a.leg = L /\ a.depth = 1 IN SelectSeq(attempts, Own)
PivotRequests(L) ==
  LET Inner(a) == a.leg = L /\ a.depth = 2 IN SelectSeq(attempts, Inner)

\* The CoinCap block needs the USD -> fiat pivot.
NeedsPivot(L, j) ==
  LegInvoke(L).fn = "crypto" /\ j = 2 /\ Upper(LegInvoke(L).b) # "USD"

\* Try block j of function call L succeeded: its request was answered and,
\* where it needs the pivot, the pivot was answered too.
BlockOk(L, j) ==
  /\ LegRequests(L)[j].ok
  /\ NeedsPivot(L, j)
       => \E k \in 1..Len(PivotRequests(L)) : PivotRequests(L)[k].ok

\* The rate try block j of function call L yields.
BlockRate(L, j) ==
  IF NeedsPivot(L, j)
  THEN LET pr == PivotRequests(L) IN
       RMul(LegRequests(L)[j].price, pr[Len(pr)].price)
  ELSE LegRequests(L)[j].price

ApisOf(fn) == IF fn = "fiat" THEN FiatApis ELSE CryptoApis
TagsOf(fn) == IF fn = "fiat" THEN FiatTags ELSE CryptoTags

\* C9: get_fiat_rate and get_crypto_rate return the rate of the first
\* provider, in their fixed order, whose attempt succeeds, tagged with that
\* provider's name; every provider before it is attempted exactly once and
\* none after it.
C9_FirstSuccessWins ==
  \A L \in 1..Len(legs) :
    LET reqs == LegRequests(L)
        fn == LegInvoke(L).fn
        wins == {j \in 1..Len(reqs) : BlockOk(L, j)}
    IN wins # {}
       => LET i == CHOOSE j \in wins : \A k \in wins : j <= k IN
          /\ legs[L].status = "return"
          /\ legs[L].rate = BlockRate(L, i)
          /\ legs[L].metadata.provider = TagsOf(fn)[i]
          /\ Len(reqs) = i
          /\ \A j \in 1..i : reqs[j].api = ApisOf(fn)[j]

\* get_crypto_rate has returned the answer of its second provider, converted
\* through the pivot, after its first provider failed.
C9_Witness ==
  \E L \in 1..Len(legs) :
    /\ Len(LegRequests(L)) = 2
    /\ NeedsPivot(L, 2) /\ BlockOk(L, 2)
    /\ legs[L].status = "return" /\ legs[L].rate = Rat(4, 1)

\* C10: for two distinct supported fiat codes, when all three providers fail
\* get_fiat_rate raises after attempting each of the three exactly once in
\* order, and the error names the three providers in that order.
C10_FiatExhaustedRaises ==
  \A L \in 1..Len(legs) :
    LET inv == LegInvoke(L)
        reqs == LegRequests(L)
    IN (/\ inv.fn = "fiat"
        /\ validate_fiat(inv.a) /\ validate_fiat(inv.b)
        /\ Upper(inv.a) # Upper(inv.b)
        /\ \A j \in 1..Len(reqs) : ~reqs[j].ok)
         => /\ legs[L].status = "raise"
            /\ legs[L].exc # NoExc
            /\ legs[L].exc[1].type = "RuntimeError"
            /\ legs[L].exc[1].apis_tried = FiatApis
            /\ Len(reqs) = 3
            /\ \A j \in 1..3 : reqs[j].api = FiatApis[j]

\* get_fiat_rate, called on its own, has ended after three failed requests.
C10_Witness ==
  /\ call.op = "get_fiat_rate" /\ pc = "done"
  /\ Len(attempts) = 3 /\ AllProvidersFailed

\* Function call L of the running call has run out of providers: no try
\* block of it succeeded.
Exhausted(L) ==
  /\ L \in 1..Len(legs)
  /\ Len(LegRequests(L)) > 0
  /\ \A j \in 1..Len(LegRequests(L)) : ~BlockOk(L, j)

\* C11: for a supported crypto code and a supported fiat code get_crypto_rate
\* never raises; when all three providers fail it returns rate 0.0 with
\* provider "Error" and an error field.
C11_CryptoNeverRaises ==
  (/\ call.op = "get_crypto_rate"
   /\ validate_crypto_currency(call.source)
   /\ Upper(call.target) \in FIAT_CURRENCIES)
    => /\ result.status # "raise"
       /\ (pc = "done" /\ Exhausted(1))
            => /\ result.status = "return"
               /\ result.rate = Zero
               /\ result.metadata.provider = "Error"
               /\ result.metadata.error # "-"
               /\ Len(LegRequests(1)) = 3

\* get_crypto_rate has ended with its sentinel although CoinCap quoted a
\* price: the USD -> fiat pivot failed, and so did the other two providers.
C11_Witness ==
  /\ call.op = "get_crypto_rate" /\ pc = "done"
  /\ Exhausted(1)
  /\ LegRequests(1)[2].ok
  /\ result.metadata.provider = "Error"

\* Every provider function call of get_exchange_rate's plan was made and
\* succeeded: it returned, and not the zero-rate sentinel.
AllLegsSucceeded ==
  /\ Len(legs) = Len(Plan(call.source, call.target))
  /\ \A L \in 1..Len(legs) :
       legs[L].status = "return" /\ legs[L].metadata.provider # "Error"

\* C12: for a fiat source F and a crypto target C, with no fresh cache entry
\* and the legs succeeding, get_exchange_rate(F, C) returns
\* fiat_rate(F, USD) / crypto_rate(C, USD), and 1 / crypto_rate(C, USD) for
\* F = USD.
C12_FiatToCrypto ==
  (/\ Exchange /\ pc = "done"
   /\ ~is_crypto(call.source) /\ is_crypto(call.target)
   /\ AllLegsSucceeded)
    => LET crypto_rate == legs[Len(legs)].rate
           fiat_rate == legs[1].rate
       IN /\ result.status = "return"
          /\ result.via = "providers"
          /\ result.rate = IF Upper(call.source) = "USD"
                           THEN RDiv(One, crypto_rate)
                           ELSE RDiv(fiat_rate, crypto_rate)

\* get_exchange_rate("EUR", C) has returned 1/2 from a fiat rate of 1 and a
\* crypto rate of 2.
C12_Witness ==
  /\ Exchange /\ pc = "done" /\ call.source = "EUR" /\ is_crypto(call.target)
  /\ AllLegsSucceeded
  /\ legs[1].rate = Rat(1, 1) /\ legs[2].rate = Rat(2, 1)
  /\ result.rate = Rat(1, 2)

\* C13: for two distinct crypto codes S and T, with no fresh cache entry and
\* both legs succeeding, get_exchange_rate(S, T) returns
\* crypto_rate(S, USD) / crypto_rate(T, USD).
C13_CryptoCross ==
  (/\ Exchange /\ pc = "done"
   /\ is_crypto(call.source) /\ is_crypto(call.target)
   /\ Upper(call.source) # Upper(call.target)
   /\ AllLegsSucceeded)
    => /\ result.status = "return"
       /\ result.via = "providers"
       /\ RMul(result.rate, legs[2].rate) = legs[1].rate

\* get_exchange_rate("BTC", "ETH") has returned 1/2 from quotes 1 and 2.
C13_Witness ==
  /\ Exchange /\ pc = "done"
  /\ call.source = "BTC" /\ call.target = "ETH"
  /\ AllLegsSucceeded
  /\ legs[1].rate = Rat(1, 1) /\ legs[2].rate = Rat(2, 1)
  /\ result.rate = Rat(1, 2)

\* C14: for a crypto source C and a fiat target F, with no fresh cache entry
\* and all legs succeeding, get_exchange_rate(C, F) returns the crypto
\* provider's rate unchanged when F is USD and
\* crypto_rate(C, USD) * fiat_rate(USD, F) otherwise.
C14_CryptoToFiat ==
  (/\ Exchange /\ pc = "done"
   /\ is_crypto(call.source) /\ ~is_crypto(call.target)
   /\ AllLegsSucceeded)
    => /\ result.status = "return"
       /\ result.via = "providers"
       /\ result.rate =
            IF Upper(call.target) = "USD" THEN legs[1].rate
            ELSE Rat(legs[1].rate.n * legs[2].rate.n,
                     legs[1].rate.d * legs[2].rate.d)

\* get_exchange_rate("BTC", "EUR") has returned 4 from a crypto rate of 2
\* and a fiat rate of 2.
C14_Witness ==
  /\ Exchange /\ pc = "done"
  /\ call.source = "BTC" /\ call.target = "EUR"
  /\ AllLegsSucceeded
  /\ legs[1].rate = Rat(2, 1) /\ legs[2].rate = Rat(2, 1)
  /\ result.rate = Rat(4, 1)

Converting == call.op = "convert_currency"

\* C15: if convert_currency(x, A, B) went through the providers with a
\* non-zero rate and returned y, then convert_currency(y, B, A) made within
\* the cache TTL returns x.
C15_RoundTrip ==
  (/\ Converting /\ pc = "done"
   /\ lastOk # <<>>
   /\ lastOk[1].op = "convert_currency"
   /\ ~IsZero(lastOk[1].rate)
   /\ SamePair(call.source, call.target, lastOk[1].target, lastOk[1].source)
   /\ call.amount = lastOk[1].converted_amount
   /\ call.at <= lastOk[1].at + CACHE_TTL)
    => /\ result.status = "return"
       /\ result.converted_amount = lastOk[1].amount

\* convert_currency(3, "USD", "EUR") returned 6 at rate 2, and
\* convert_currency(6, "EUR", "USD") has returned 3 from the cached inverse.
C15_Witness ==
  /\ Converting /\ pc = "done"
  /\ lastOk # <<>>
  /\ lastOk[1].source = "USD" /\ lastOk[1].target = "EUR"
  /\ lastOk[1].amount = Rat(3, 1) /\ lastOk[1].converted_amount = Rat(6, 1)
  /\ call.source = "EUR" /\ call.target = "USD" /\ call.amount = Rat(6, 1)
  /\ result.metadata.cached /\ result.metadata.is_inverse
  /\ result.converted_amount = Rat(3, 1)

\* C16: convert_currency returns amount * rate and attaches original_amount
\* and converted_amount to a copy of the quote metadata: no metadata stored
\* in a cache entry ever contains original_amount or converted_amount.
C16_CacheHoldsNoAmounts ==
  /\ (Converting /\ pc = "done" /\ result.status = "return")
       => /\ result.converted_amount = RMul(call.amount, result.rate)
          /\ result.metadata.converted_amount = result.converted_amount
          /\ result.metadata.original_amount = call.amount
  /\ \A k \in DOMAIN rate_cache :
       /\ rate_cache[k].metadata.original_amount = NoAmount
       /\ rate_cache[k].metadata.converted_amount = NoAmount

\* What C17 says of one lookup in the current state.
LookupAsSpecified(a, b, allow_expired) ==
  LET cache_key == get_cache_key(a, b)
      found == get_cached_rate(rate_cache, now, a, b, allow_expired)
  IN IF cache_key \notin DOMAIN rate_cache THEN found = <<>>
     ELSE LET cache_entry == rate_cache[cache_key]
              expired == now > cache_entry.expires_at
          IN IF expired /\ ~allow_expired THEN found = <<>>
             ELSE /\ found # <<>>
                  /\ found[1].rate = cache_entry.rate
                  /\ found[1].metadata.cached
                  /\ found[1].metadata.cache_expired
                       <=> (expired /\ allow_expired)

\* C17: get_cached_rate(A, B, allow_expired) returns nothing when (A, B) was
\* never written or when the entry is expired and allow_expired is false;
\* otherwise it returns the entry's rate tagged cached, with cache_expired
\* exactly when the entry is expired and allow_expired is true.  A call that
\* only looks the rate up leaves the cache as it was.  (Cache and clock
\* change only from one idle state to the next, so the idle states show every
\* cache a lookup can meet.)
C17_GetCachedRate ==
  /\ [](pc = "idle"
          => \A a \in Codes, b \in Codes, allow_expired \in BOOLEAN :
               LookupAsSpecified(a, b, allow_expired))
  /\ [][(pc = "idle" /\ pc' = "done"
           /\ result'.via \in {"cache", "expired", "sentinel"})
          => rate_cache' = rate_cache]_vars

\* get_exchange_rate has been answered by get_cached_rate(allow_expired =
\* True) from an entry past its expiry, after the fresh lookup found nothing.
C17_Witness ==
  /\ Exchange /\ pc = "done"
  /\ result.via = "expired"
  /\ result.metadata.cached /\ result.metadata.cache_expired
  /\ get_cached_rate(rate_cache, now, call.source, call.target, FALSE) = <<>>

\* C18: the conversion history is append-only: a Convert whose
\* convert_currency call returned appends exactly one record, no other step
\* changes the history, and the table shows the last min(10, n) of the n
\* records.
C18_HistoryAppendOnly ==
  /\ [](LET n == Len(conversion_history)
            table == HistoryTable(conversion_history)
            shown == IF n < 10 THEN n ELSE 10
        IN /\ Len(table) = shown
           /\ \A i \in 1..shown : table[i] = conversion_history[n - shown + i])
  /\ [][LET n == Len(conversion_history) IN
        IF pc = "done" /\ Converting /\ result.status = "return"
        THEN /\ Len(conversion_history') = n + 1
             /\ SubSeq(conversion_history', 1, n) = conversion_history
             /\ conversion_history'[n + 1].source = call.source
             /\ conversion_history'[n + 1].target = call.target
             /\ conversion_history'[n + 1].amount = call.amount
             /\ conversion_history'[n + 1].result = result.converted_amount
        ELSE conversion_history' = conversion_history]_vars

\* The session holds eleven conversions, one more than the table shows.
C18_Witness ==
  /\ Len(conversion_history) = 11
  /\ Len(HistoryTable(conversion_history)) = 10

\* C19: in a crypto -> crypto resolution where the provider chain of either
\* leg fails, get_exchange_rate writes nothing to the cache and returns only
\* a stale cache entry or the error sentinel.
C19_CryptoCrossFailsWhole ==
  (/\ Exchange /\ pc = "done"
   /\ is_crypto(call.source) /\ is_crypto(call.target)
   /\ \E L \in 1..Len(legs) : legs[L].metadata.provider = "Error")
    => /\ Held(get_cache_key(call.source, call.target)) = call.had
       /\ result.status = "return"
       /\ result.via \in {"expired", "sentinel"}

\* C20: when all providers of get_fiat_rate or get_crypto_rate fail, the
\* final error text holds one message per attempted provider, whatever the
\* kind of each failure.
C20_OneMessagePerAttempt ==
  \A L \in 1..Len(legs) :
    (Exhausted(L) /\ Len(LegRequests(L)) = 3)
      => legs[L].error_messages = ApisOf(LegInvoke(L).fn)

\* A code that is neither in the fiat set nor in the crypto registry.
UnsupportedCode(c) == ~validate_fiat(c) /\ ~is_crypto(c)

\* C21: an unsupported code is detected before any provider is contacted:
\* get_exchange_rate(A, B) with A or B in neither registry makes no provider
\* call, whatever the other code is.
C21_UnsupportedNoCall ==
  (Exchange /\ (UnsupportedCode(call.source) \/ UnsupportedCode(call.target)))
    => attempts = <<>>

\* C22: get_crypto_rate raises its unsupported-currency error before any
\* provider is attempted when the crypto code is not in the registry or the
\* fiat code is not in the fiat set, and so does get_fiat_rate when either
\* code is not in the fiat set, equal codes included.
C22_ValidateBeforeProviders ==
  LET rejected ==
        \/ /\ call.op = "get_crypto_rate"
           /\ \/ Upper(call.source) \notin CRYPTO_MAPPING
              \/ Upper(call.target) \notin FIAT_CURRENCIES
        \/ /\ call.op = "get_fiat_rate"
           /\ \/ Upper(call.source) \notin FIAT_CURRENCIES
              \/ Upper(call.target) \notin FIAT_CURRENCIES
  IN rejected
       => /\ attempts = <<>>
          /\ pc = "done"
          /\ result.status = "raise"
          /\ result.exc # NoExc
          /\ result.exc[1].type = "ValueError"

\* get_fiat_rate("XXX", "XXX") has raised without a request.
C22_Witness ==
  /\ call.op = "get_fiat_rate" /\ pc = "done"
  /\ call.source = "XXX" /\ call.target = "XXX"
  /\ result.status = "raise" /\ attempts = <<>>

\* C23: in get_crypto_rate for a fiat other than USD, when CoinCap answers
\* with its USD price: if the pivot get_fiat_rate("USD", fiat) succeeds the
\* result is usd_price * fiat_rate tagged CoinCap; if the pivot fails the
\* CoinCap attempt counts as failed and the third provider is attempted, so
\* the result is that provider's answer or the sentinel, never the USD price.
C23_CoinCapPivot ==
  (/\ call.op = "get_crypto_rate" /\ pc = "done"
   /\ Len(LegRequests(1)) >= 2
   /\ NeedsPivot(1, 2)
   /\ LegRequests(1)[2].ok)
    => LET reqs == LegRequests(1)
           pr == PivotRequests(1)
       IN IF \E k \in 1..Len(pr) : pr[k].ok
          THEN /\ Len(reqs) = 2
               /\ pr[Len(pr)].ok
               /\ result.status = "return"
               /\ result.rate = RMul(reqs[2].price, pr[Len(pr)].price)
               /\ result.metadata.provider = "CoinCap"
          ELSE /\ Len(pr) = 3
               /\ Len(reqs) = 3
               /\ reqs[3].api = "CryptoCompare"
               /\ result.status = "return"
               /\ result.metadata.provider # "CoinCap"
               /\ result.rate = IF reqs[3].ok THEN reqs[3].price ELSE Zero

\* get_crypto_rate has returned CryptoCompare's answer 1 after CoinCap quoted
\* a USD price of 2 and the USD -> fiat pivot failed.
C23_Witness ==
  /\ call.op = "get_crypto_rate" /\ pc = "done"
  /\ Len(LegRequests(1)) = 3 /\ Len(PivotRequests(1)) = 3
  /\ LegRequests(1)[2].ok /\ LegRequests(1)[2].price = Rat(2, 1)
  /\ LegRequests(1)[3].ok
  /\ result.rate = Rat(1, 1)
  /\ result.metadata.provider = "CryptoCompare (Second Backup)"

\* C24: cache_rate is atomic over the direct and the inverse entry: a
\* resolution has written both or left the cache as it was, and a write that
\* fails on rate 0 leaves the cache as it was.
C24_CacheRateAtomic ==
  (Exchange /\ pc = "done")
    => LET cache_key == get_cache_key(call.source, call.target)
           inverse_key == get_cache_key(call.target, call.source)
           Written(key) ==
             /\ key \in DOMAIN rate_cache
             /\ rate_cache[key].created_at = call.at
             /\ key \in DOMAIN call.cache
                  => rate_cache[key] # call.cache[key]
       IN \/ rate_cache = call.cache
          \/ /\ Written(cache_key) /\ Written(inverse_key)
             /\ ~IsZero(rate_cache[cache_key].rate)

\* The requests of the running call that one get_fiat_rate call made: the
\* call is function call L of the resolver (depth 1) or the pivot of its
\* CoinCap block (depth 2).
FiatRequests(L, depth) ==
  LET Mine(a) == a.leg = L /\ a.depth = depth /\ a.fn = "fiat"
  IN SelectSeq(attempts, Mine)

\* C25: get_fiat_rate attempts its endpoints in the order of the interface
\* section: first the pair endpoint /latest?from={SRC}&to={TGT}, then the
\* table endpoint /latest/{SRC}, then /latest/currencies/{src}/{tgt}.json.
C25_EndpointOrderAsSpecified ==
  \A L \in 1..2, depth \in 1..2 :
    LET reqs == FiatRequests(L, depth) IN
    \A j \in 1..Len(reqs) :
      reqs[j].endpoint =
        <<"/latest?from={SRC}&to={TGT}", "/latest/{SRC}",
          "/latest/currencies/{src}/{tgt}.json">>[j]

\* C25, amended: get_fiat_rate attempts first the table endpoint
\* /latest/{SRC}, then the pair endpoint /latest?from={SRC}&to={TGT}, then
\* /latest/currencies/{src}/{tgt}.json.
C25_EndpointOrder ==
  \A L \in 1..2, depth \in 1..2 :
    LET reqs == FiatRequests(L, depth) IN
    /\ Len(reqs) <= 3
    /\ \A j \in 1..Len(reqs) :
         /\ reqs[j].endpoint =
              <<"/latest/{SRC}", "/latest?from={SRC}&to={TGT}",
                "/latest/currencies/{src}/{tgt}.json">>[j]
         /\ j > 1 => ~reqs[j - 1].ok

\* get_fiat_rate has returned the answer of the pair endpoint after the
\* table endpoint failed.
C25_Witness ==
  /\ call.op = "get_fiat_rate" /\ pc = "done"
  /\ Len(attempts) = 2
  /\ ~attempts[1].ok /\ attempts[2].ok
  /\ attempts[2].endpoint = "/latest?from={SRC}&to={TGT}"
  /\ result.metadata.provider = "Frankfurter API (Backup)"

\* C26: when two get_exchange_rate calls for the same pair (A, B) interleave
\* on one cache, all that differs from running them one after the other is a
\* redundant provider call: once both have finished and a result has come
\* from the providers, the entries (A, B) and (B, A) are both present and
\* their rates are reciprocal.
C26_RaceBenign ==
  (/\ \A p \in Racers : racers[p].pc = "done"
   /\ \E p \in Racers : racers[p].result.via = "providers")
    => LET cache_key == get_cache_key(racers[1].source, racers[1].target)
           inverse_key == get_cache_key(racers[1].target, racers[1].source)
       IN /\ cache_key \in DOMAIN rate_cache
          /\ inverse_key \in DOMAIN rate_cache
          /\ ~IsZero(rate_cache[cache_key].rate)
          /\ rate_cache[inverse_key].rate = RInv(rate_cache[cache_key].rate)

\* C27: every get_exchange_rate call terminates after a bounded number of
\* strictly sequential provider attempts: within one leg no provider is
\* attempted twice and a provider is attempted only after every earlier
\* provider of that leg has failed; a call makes at most 3 attempts for
\* fiat -> fiat and at most 6 for any pair.  (Termination as a bounded
\* count: every step of a waiting call is one more attempt, and the attempts
\* of a call never exceed the bound.)
C27_BoundedAttempts ==
  /\ [](Exchange
          => /\ Len(attempts) <= 6
             /\ (~is_crypto(call.source) /\ ~is_crypto(call.target))
                  => Len(attempts) <= 3
             /\ \A i \in 1..Len(attempts), j \in 1..Len(attempts) :
                  i < j
                    => /\ attempts[i].leg <= attempts[j].leg
                       /\ attempts[i].leg = attempts[j].leg
                            => /\ attempts[i].api # attempts[j].api
                               /\ ~attempts[i].ok)
  /\ [][(Exchange /\ pc = "chain")
          => /\ Len(attempts') = Len(attempts) + 1
             /\ pc' \in {"chain", "done"}]_vars

\* get_exchange_rate has ended after six requests, three for each leg.
C27_Witness ==
  /\ Exchange /\ pc = "done"
  /\ Len(attempts) = 6
  /\ Len(LegRequests(1)) = 3 /\ Len(LegRequests(2)) = 3

\* The answers the providers gave to the requests of the running call.
Answers ==
  [i \in 1..Len(attempts) |->
     [ok |-> attempts[i].ok, price |-> attempts[i].price,
      diagnosed |-> attempts[i].diagnosed]]

\* The cache keys whose entries differ between two caches.
Touched(before, after) ==
  {k \in DOMAIN after : k \notin DOMAIN before \/ after[k] # before[k]}

\* C28: codes are case-insensitive in the resolver: on the same cache and
\* with the same provider answers, get_exchange_rate called with the codes
\* in any casing asks the providers as often, returns the same rate and
\* reads and writes the same cache keys as the call with upper-case codes.
C28_CaseInsensitive ==
  (Exchange /\ pc = "done")
    => LET source == Upper(call.source)
           target == Upper(call.target)
           upper == Replay(get_exchange_rate(call.cache, call.at,
                                             source, target),
                           call.at, source, target, Answers)
       IN /\ upper.unused = 0
          /\ upper.state.pc = "done"
          /\ upper.state.result.status = result.status
          /\ upper.state.result.rate = result.rate
          /\ get_cache_key(source, target)
               = get_cache_key(call.source, call.target)
          /\ Touched(call.cache, upper.state.cache)
               = Touched(call.cache, rate_cache)
          /\ \A k \in Touched(call.cache, rate_cache) :
               upper.state.cache[k].rate = rate_cache[k].rate

\* get_exchange_rate("btc", "usd") has returned the providers' rate 2 and
\* stored it under the upper-case keys.
C28_Witness ==
  /\ Exchange /\ pc = "done"
  /\ call.source = "btc" /\ call.target = "usd"
  /\ result.via = "providers" /\ result.rate = Rat(2, 1)
  /\ DOMAIN rate_cache = {<<"BTC", "USD">>, <<"USD", "BTC">>}

\* C29: a provider failure is not sticky: when get_exchange_rate(A, B) has
\* ended in failure (all providers of a leg failed) and the providers have
\* recovered, the next get_exchange_rate(A, B), however soon it is made,
\* contacts the providers again and returns their non-zero rate.
C29_FailureNotSticky ==
  (/\ Exchange /\ pc = "done"
   /\ \E L \in 1..Len(legs) : Exhausted(L))
    => LET recovered == [i \in 1..6 |-> Quote(Rat(2, 1))]
           next == get_exchange_rate(rate_cache, now,
                                     call.source, call.target)
           ended == Replay(next, now, call.source, call.target, recovered)
       IN /\ next.pc = "chain"
          /\ ended.state.pc = "done"
          /\ ended.state.result.via = "providers"
          /\ ~IsZero(ended.state.result.rate)

\* C30: in single-session use, get_exchange_rate returns with the warning
\* "Using cached rate due to API error (recent cache)" only when the same
\* call wrote the entry it returns, and the rate it returns then is 0.0; a
\* fresh entry written by an earlier call is returned by the first cache
\* check and never reaches that branch.
C30_RecentOnlyOwnZero ==
  LET cache_key == get_cache_key(call.source, call.target) IN
  /\ (/\ Exchange /\ pc = "done"
      /\ result.metadata.warning
           = "Using cached rate due to API error (recent cache)")
       => /\ IsZero(result.rate)
          /\ attempts # <<>>
          /\ call.had # <<>> => ~Fresh(call.at, call.had[1])
          /\ cache_key \in DOMAIN rate_cache
          /\ rate_cache[cache_key].created_at = call.at
          /\ rate_cache[cache_key].rate = result.rate
          /\ Held(cache_key) # call.had
  /\ (Exchange /\ call.had # <<>> /\ Fresh(call.at, call.had[1]))
       => /\ pc = "done"
          /\ attempts = <<>>
          /\ result.via = "cache"
          /\ result.rate = call.had[1].rate
          /\ result.metadata.warning = "-"

\* get_exchange_rate has returned, with the recent-cache warning, the zero
\* rate it had itself just stored over an expired entry.
C30_Witness ==
  /\ Exchange /\ pc = "done"
  /\ result.via = "recent" /\ IsZero(result.rate)
  /\ call.had # <<>> /\ ~Fresh(call.at, call.had[1])
  /\ ~IsZero(call.had[1].rate)

====
